---- MODULE Spec2Model ----
(***************************************************************************)
(* Model of pyumi's layer namespace (pyumi/umi_layers.py, class UmiLayers) *)
(* and of its solid builder (pyumi/geom_ops.py).                           *)
(*                                                                         *)
(* Strings that the code splits and joins are sequences of tokens: a token *)
(* is either a plain name ("umi") or a delimiter ("::", "/"), so that      *)
(* str.split, delimiter.join and rhino3dm's Layer.FullPath are computed,   *)
(* not assumed.  A File3dm layer table is a sequence of layer records; the *)
(* Id of a layer is its position in its table (rhino3dm: a fresh Guid),    *)
(* and a layer is identified across files by the pair (scene, Id).         *)
(*                                                                         *)
(* rhino3dm calls are read as the call sites use them: Layers.Add appends  *)
(* the layer with the Name and ParentLayerId it was given, FindName        *)
(* returns the first layer of the table with that name and parent, and     *)
(* FullPath joins the names of the parent chain with "::".                 *)
(***************************************************************************)
EXTENDS Integers, Sequences, FiniteSets, TLC

VARIABLES
    layers,          \* scene -> the Layers table of its File3dm
    cls,             \* attributes set on the class UmiLayers: full path -> layer
    seeded,          \* scene -> number of UmiLayers(file3dm) constructions (capped)
    last,            \* the last call made and what it returned
    geom,            \* geom_to_brep: the geometry argument
    from_elevation,  \* geom_to_brep: from_elevation
    to_elevation,    \* geom_to_brep: to_elevation
    result,          \* geom_to_brep: the value returned (or the exception raised)
    extracted,       \* extract_poly_coords(geom): the tuple returned (or the exception)
    objects,         \* the Objects table of the File3dm given to resolve_3dm_geom
    resolved,        \* resolve_3dm_geom: the last call and what it returned
    handles,         \* the guids returned by the calls of resolve_3dm_geom, in order
    gdf_arg,         \* from_gdf: the GeoDataFrame given by the caller
    gdf,             \* from_gdf: the local gdf, a sequence of rows
    pc,              \* from_gdf: the position reached in the body
    log,             \* from_gdf: the messages logged so far
    built,           \* from_gdf: the rows handed to geom_to_brep so far
    gdf_world_projected,  \* from_gdf: the copy the centroid offset is taken from
    project,         \* from_gdf: the UmiProject returned, or the exception raised
    crs,             \* the crs of the caller's gdf, the to_crs given, the crs of gdf
    exported,        \* export: the GeoDataFrame written, before and after reprojection
    orders           \* add_layer(a) and add_layer(b): the tables of the two orders

vars ==
    <<layers, cls, seeded, last, geom, from_elevation, to_elevation, result, extracted,
      objects, resolved, handles, gdf_arg, gdf, pc, log, built, gdf_world_projected,
      project, crs, exported, orders>>

layerVars == <<layers, cls, seeded, last>>
geomVars == <<geom, from_elevation, to_elevation, result, extracted>>
sceneVars == <<objects, resolved, handles>>
gdfVars == <<gdf_arg, gdf, pc, log, built, gdf_world_projected, project>>
worldVars == <<crs, exported>>
restVars == <<sceneVars, gdfVars, worldVars, orders>>

-----------------------------------------------------------------------------
(* Bounds of the model *)

MaxSegs == 3        \* segments of a path given to add_layer
MaxLayers == 11     \* layers of one File3dm (9 are seeded by the constructor)
MaxSeedings == 2    \* constructions counted per File3dm (2 = "twice or more")

-----------------------------------------------------------------------------
(* Values *)

DD == "::"
Delimiters == {"::", "/"}
Names == {"umi", "Amenities"}
Scenes == {"A", "B"}

NilId == 0
None == -1
Unbound == -2
Black == <<0, 0, 0, 255>>

BaseLayers ==
    << [path |-> <<"umi", "::", "Buildings">>, Color |-> <<0, 0, 0, 255>>],
       [path |-> <<"umi", "::", "Context">>, Color |-> <<0, 0, 0, 255>>],
       [path |-> <<"umi", "::", "Context", "::", "Site boundary">>, Color |-> <<255, 0, 255, 255>>],
       [path |-> <<"umi", "::", "Context", "::", "Streets">>, Color |-> <<0, 0, 0, 255>>],
       [path |-> <<"umi", "::", "Context", "::", "Parks">>, Color |-> <<0, 127, 0, 255>>],
       [path |-> <<"umi", "::", "Context", "::", "Boundary objects">>, Color |-> <<0, 0, 0, 255>>],
       [path |-> <<"umi", "::", "Context", "::", "Shading">>, Color |-> <<191, 63, 63, 255>>],
       [path |-> <<"umi", "::", "Context", "::", "Trees">>, Color |-> <<63, 191, 127, 255>>] >>

SetMin(S) == CHOOSE x \in S : \A y \in S : x <= y

\* Elevations are floats.  A finite one is counted in units of 5e-13 m, so
\* that the 1e-12 of geom_ops.py is EPS = 2 and 1 lies strictly between 0
\* and 1e-12; inf and nan are the non-finite floats; Omitted is an argument
\* left out of the call.
EPS == 2
Fin(n) == [k |-> "fin", v |-> n]
Inf == [k |-> "inf", v |-> 0]
NaN == [k |-> "nan", v |-> 0]
Omitted == [k |-> "omitted", v |-> 0]

NoResult == [kind |-> "none", outer |-> <<>>, inner |-> <<>>, sweep |-> <<>>, exc |-> "none"]
NoEpc == [called |-> FALSE, exterior |-> <<>>, interiors |-> <<>>, exc |-> "none"]

-----------------------------------------------------------------------------
(* str.split(delimiter), delimiter.join(...), itertools.accumulate *)

RECURSIVE Split(_, _)
Split(path, d) ==
    IF \A i \in 1..Len(path) : path[i] # d
    THEN <<path>>
    ELSE LET k == SetMin({i \in 1..Len(path) : path[i] = d})
         IN  <<SubSeq(path, 1, k - 1)>> \o Split(SubSeq(path, k + 1, Len(path)), d)

RECURSIVE Join(_, _)
Join(segs, d) ==
    IF Len(segs) = 0 THEN <<>>
    ELSE IF Len(segs) = 1 THEN segs[1]
    ELSE segs[1] \o <<d>> \o Join(Tail(segs), d)

Accumulate(temp, d) == [i \in 1..Len(temp) |-> Join(SubSeq(temp, 1, i), d)]

-----------------------------------------------------------------------------
(* rhino3dm layer table, as used by UmiLayers *)

RECURSIVE FullPath(_, _)
FullPath(L, id) ==
    IF L[id].ParentLayerId = NilId
    THEN L[id].Name
    ELSE FullPath(L, L[id].ParentLayerId) \o <<DD>> \o L[id].Name

NewLayer(name, parent_id) ==
    [Name |-> name, ParentLayerId |-> parent_id, Color |-> Black]

LayersAdd(L, lyr) == Append(L, lyr)

\* A slip that looks the name up without the parent.
FindNameAnyParent(L, name, parent_id) ==
    LET hits == {i \in 1..Len(L) : L[i].Name = name}
    IN  IF hits = {} THEN None ELSE SetMin(hits)

FindName(L, name, parent_id) ==
    LET hits == {i \in 1..Len(L) : L[i].Name = name /\ L[i].ParentLayerId = parent_id}
    IN  IF hits = {} THEN None ELSE SetMin(hits)

SetAttr(c, key, value) ==
    [k \in (DOMAIN c) \cup {key} |-> IF k = key THEN value ELSE c[k]]

-----------------------------------------------------------------------------
(* UmiLayers.find_layer_from_fullpath, find_layer_from_name *)

\* _layer, *_ = filter(lambda x: x.FullPath == full_path, Layers): the first
\* layer of the table with that full path; ValueError (no match) gives None.
FindLayerFromFullpath(L, full_path) ==
    LET hits == {i \in 1..Len(L) : FullPath(L, i) = full_path}
    IN  IF hits = {} THEN None ELSE SetMin(hits)

\* The Ids of the layers of L that filter(lambda x: x.Name == name, ...) yields,
\* in table order.
RECURSIVE FilterName(_, _, _)
FilterName(L, name, i) ==
    IF i > Len(L) THEN <<>>
    ELSE (IF L[i].Name = name THEN <<i>> ELSE <<>>) \o FilterName(L, name, i + 1)

\* A slip that drops the "if others: raise".
FindLayerFromNameFirst(L, name) ==
    LET matches == FilterName(L, name, 1)
    IN  IF Len(matches) = 0 THEN [ret |-> None, exc |-> "none"]
        ELSE [ret |-> Head(matches), exc |-> "none"]

\* _first, *others = filter(...): ValueError on no match gives None; a
\* non-empty others raises ReferenceError, which the except does not catch.
FindLayerFromName(L, name) ==
    LET matches == FilterName(L, name, 1)
    IN  IF Len(matches) = 0 THEN [ret |-> None, exc |-> "none"]
        ELSE IF Tail(matches) # <<>> THEN [ret |-> None, exc |-> "ReferenceError"]
        ELSE [ret |-> Head(matches), exc |-> "none"]

-----------------------------------------------------------------------------
(* UmiLayers.add_layer *)

\* A slip that leaves out line 101, so that the parent stays the one before.
ParentKept(parent_layer, found) == parent_layer

\* line 101: parent_layer = self.find_layer_from_fullpath(part)
ParentAfterFound(parent_layer, found) == found

\* The loop of lines 99-115 from part i on.  parent_layer is the Id of the
\* variable parent_layer (NilId for the fresh Layer() of line 98; a Layer is
\* always truthy, so line 107 always takes the assignment of line 108), lyr
\* the variable _layer (Unbound until a layer is created), created the
\* layers appended so far with the part each was created for.  FindName
\* returning None makes line 115 raise AttributeError; returning _layer
\* while it is unbound raises UnboundLocalError.
RECURSIVE AddLoop(_, _, _, _, _, _, _, _, _)
AddLoop(L, c, s, d, res, i, parent_layer, lyr, created) ==
    IF i > Len(res)
    THEN [layers |-> L, cls |-> c, ret |-> lyr, created |-> created,
          exc |-> IF lyr = Unbound THEN "UnboundLocalError" ELSE "none"]
    ELSE LET part == res[i]
             found == FindLayerFromFullpath(L, part)
         IN  IF found # None
             THEN AddLoop(L, c, s, d, res, i + 1, ParentAfterFound(parent_layer, found),
                          lyr, created)
             ELSE LET segs == Split(part, d)
                      name == segs[Len(segs)]
                      L2 == LayersAdd(L, NewLayer(name, parent_layer))
                      new == FindName(L2, name, parent_layer)
                      made == Append(created, [Id |-> Len(L2), part |-> part])
                  IN  IF new = None
                      THEN [layers |-> L2, cls |-> c, ret |-> None, created |-> made,
                            exc |-> "AttributeError"]
                      ELSE AddLoop(L2, SetAttr(c, FullPath(L2, new), [scene |-> s, Id |-> new]),
                                   s, d, res, i + 1, new, new, made)

\* A slip that leaves out the early return of lines 91-92.
AddLayerOpNoEarlyReturn(L, c, s, full_path, d) ==
    AddLoop(L, c, s, d, Accumulate(Split(full_path, d), d), 1, NilId, Unbound, <<>>)

AddLayerOp(L, c, s, full_path, d) ==
    LET hit == FindLayerFromFullpath(L, full_path)
    IN  IF hit # None
        THEN [layers |-> L, cls |-> c, ret |-> hit, created |-> <<>>, exc |-> "none"]
        ELSE AddLoop(L, c, s, d, Accumulate(Split(full_path, d), d), 1, NilId, Unbound, <<>>)

-----------------------------------------------------------------------------
(* UmiLayers.__init__ *)

RECURSIVE SetAttrAll(_, _, _, _)
SetAttrAll(c, L, s, i) ==
    IF i > Len(L) THEN c
    ELSE SetAttrAll(SetAttr(c, FullPath(L, i), [scene |-> s, Id |-> i]), L, s, i + 1)

\* The entry of _base_layers for a full path (0: no entry).
BaseIndex(full_path) ==
    LET hits == {i \in 1..Len(BaseLayers) : BaseLayers[i].path = full_path}
    IN  IF hits = {} THEN 0 ELSE SetMin(hits)

\* A slip that leaves every base layer with the default color.
BaseColorBlack(full_path) == Black

\* _base_layers[layer.FullPath]["Color"]
BaseColor(full_path) == BaseLayers[BaseIndex(full_path)].Color

SetColor(L, id, color) == [L EXCEPT ![id].Color = color]

\* The loop of lines 59-64 from base layer i on.  An exception of add_layer
\* ends it; a layer whose FullPath is no key of _base_layers makes line 62
\* subscript the default tuple, a TypeError.
RECURSIVE SeedLoop(_, _, _, _, _)
SeedLoop(L, c, s, i, created) ==
    IF i > Len(BaseLayers)
    THEN [layers |-> L, cls |-> c, created |-> created, exc |-> "none"]
    ELSE LET r == AddLayerOp(L, c, s, BaseLayers[i].path, DD)
             made == created \o r.created
         IN  IF r.exc # "none"
             THEN [layers |-> r.layers, cls |-> r.cls, created |-> made, exc |-> r.exc]
             ELSE IF BaseIndex(FullPath(r.layers, r.ret)) = 0
             THEN [layers |-> r.layers, cls |-> r.cls, created |-> made, exc |-> "TypeError"]
             ELSE SeedLoop(SetColor(r.layers, r.ret, BaseColor(FullPath(r.layers, r.ret))),
                           r.cls, s, i + 1, made)

-----------------------------------------------------------------------------
(* State machine of the layer namespace *)

NoCall ==
    [op |-> "none", scene |-> "A", path |-> <<>>, delim |-> DD, ret |-> None,
     owner |-> "A", created |-> <<>>, again |-> FALSE, exc |-> "none"]

NoGeom == [type |-> "none"]

NoSeries == [geometry |-> NoGeom, has |-> {}, vals |-> [osmid |-> 0, color |-> Black]]
NoResolve ==
    [called |-> FALSE, series |-> NoSeries, layer |-> 0, fid |-> "", ret |-> None,
     exc |-> "none", msg |-> <<>>]

SceneInit ==
    /\ objects = <<>>
    /\ resolved = NoResolve
    /\ handles = <<>>

EmptyFrame == [columns |-> {}, rows |-> <<>>]
NoProject ==
    [state |-> "none", exc |-> "none", gdf_3dm |-> EmptyFrame, to_crs |-> "None",
     origin |-> 0, fid |-> "fid"]

GdfIdle ==
    /\ gdf_arg = <<>>
    /\ gdf = <<>>
    /\ pc = "idle"
    /\ log = <<>>
    /\ built = <<>>
    /\ gdf_world_projected = <<>>
    /\ project = NoProject

NoExport ==
    [called |-> FALSE, exc |-> "none", dtypes |-> {}, translated |-> <<>>, rows |-> <<>>,
     crs |-> "None"]

\* Coordinate systems are told apart by CRS.coordinate_system.name.
WorldIdle ==
    /\ crs = [given |-> "ellipsoidal", to_crs |-> "None", gdf |-> "ellipsoidal"]
    /\ exported = NoExport

NoOrders ==
    [called |-> FALSE, a |-> <<>>, da |-> DD, b |-> <<>>, db |-> DD, ab |-> <<>>,
     ba |-> <<>>, exc |-> <<>>]

RestInit == SceneInit /\ GdfIdle /\ WorldIdle /\ orders = NoOrders

LayerInit ==
    /\ layers = [s \in Scenes |-> <<>>]
    /\ cls = <<>>
    /\ seeded = [s \in Scenes |-> 0]
    /\ last = NoCall

Init ==
    /\ LayerInit
    /\ geom = NoGeom
    /\ from_elevation = Omitted
    /\ to_elevation = Omitted
    /\ result = NoResult
    /\ extracted = NoEpc
    /\ RestInit

\* UmiLayers(file3dm) on the File3dm of scene s (empty before the first call).
\* A constructor that raises gives no instance, but what it did to the
\* File3dm and to the class stays.
Construct(s) ==
    LET r == SeedLoop(layers[s], SetAttrAll(cls, layers[s], s, 1), s, 1, <<>>)
    IN  /\ Len(r.layers) <= MaxLayers
        /\ layers' = [layers EXCEPT ![s] = r.layers]
        /\ cls' = r.cls
        /\ seeded' = [seeded EXCEPT ![s] =
                         IF r.exc = "none" /\ @ < MaxSeedings THEN @ + 1 ELSE @]
        /\ last' = [NoCall EXCEPT !.op = "init", !.scene = s, !.owner = s,
                                  !.created = r.created, !.exc = r.exc]
        /\ UNCHANGED <<geomVars, restVars>>

\* umiLayers.add_layer(delimiter.join(segs), delimiter) on scene s.
AddLayer(s, segs, d) ==
    LET full_path == Join(segs, d)
        r == AddLayerOp(layers[s], cls, s, full_path, d)
    IN  /\ seeded[s] > 0
        /\ Len(r.layers) <= MaxLayers
        /\ layers' = [layers EXCEPT ![s] = r.layers]
        /\ cls' = r.cls
        /\ last' = [op |-> "add_layer", scene |-> s, path |-> full_path, delim |-> d,
                    ret |-> r.ret, owner |-> s, created |-> r.created,
                    again |-> /\ last.op = "add_layer"
                              /\ last.scene = s
                              /\ last.path = full_path
                              /\ last.delim = d,
                    exc |-> r.exc]
        /\ UNCHANGED <<seeded, geomVars, restVars>>

\* umiLayers.find_layer_from_name(name) on scene s.
FindByName(s, name) ==
    LET r == FindLayerFromName(layers[s], name)
    IN  /\ seeded[s] > 0
        /\ last' = [NoCall EXCEPT !.op = "find_layer_from_name", !.scene = s,
                                  !.path = name, !.ret = r.ret, !.owner = s,
                                  !.exc = r.exc]
        /\ UNCHANGED <<layers, cls, seeded, geomVars, restVars>>

\* umiLayers[layer_name] on scene s: getattr(cls, layer_name), a classmethod.
GetItem(s, layer_name) ==
    /\ seeded[s] > 0
    /\ last' = IF layer_name \in DOMAIN cls
               THEN [NoCall EXCEPT !.op = "getitem", !.scene = s, !.path = layer_name,
                                   !.ret = cls[layer_name].Id,
                                   !.owner = cls[layer_name].scene]
               ELSE [NoCall EXCEPT !.op = "getitem", !.scene = s, !.path = layer_name,
                                   !.owner = s, !.exc = "AttributeError"]
    /\ UNCHANGED <<layers, cls, seeded, geomVars, restVars>>

SegSeqs == UNION {[1..n -> {<<x>> : x \in Names}] : n \in 1..MaxSegs}

LookupNames == {<<x>> : x \in Names \cup {"Parks", "Roads"}}

Next ==
    \/ Construct("A")
    \/ \E segs \in SegSeqs, d \in Delimiters : AddLayer("A", segs, d)
    \/ \E name \in LookupNames : FindByName("A", name)

Spec == Init /\ [][Next]_vars

\* Two scenes side by side, each with its own File3dm.
RootSegs == {segs \in SegSeqs : Len(segs) = 1}

ItemPaths ==
    {BaseLayers[i].path : i \in 1..Len(BaseLayers)} \cup {Join(segs, DD) : segs \in RootSegs}

NextScenes ==
    \/ \E s \in Scenes : Construct(s)
    \/ \E s \in Scenes, segs \in RootSegs : AddLayer(s, segs, DD)
    \/ \E s \in Scenes, p \in ItemPaths : GetItem(s, p)

SpecScenes == Init /\ [][NextScenes]_vars

\* umiLayers.add_layer(a, da) followed by umiLayers.add_layer(b, db) on scene
\* s, next to what the same two calls give in the other order on the same
\* table.
AddBoth(s, a_segs, da, b_segs, db) ==
    LET a == Join(a_segs, da)
        b == Join(b_segs, db)
        first == AddLayerOp(layers[s], cls, s, a, da)
        second == AddLayerOp(first.layers, first.cls, s, b, db)
        other_first == AddLayerOp(layers[s], cls, s, b, db)
        other_second == AddLayerOp(other_first.layers, other_first.cls, s, a, da)
    IN  /\ seeded[s] > 0
        /\ ~orders.called
        /\ layers' = [layers EXCEPT ![s] = second.layers]
        /\ cls' = second.cls
        /\ last' = [op |-> "add_layer", scene |-> s, path |-> b, delim |-> db,
                    ret |-> second.ret, owner |-> s, created |-> second.created,
                    again |-> a = b /\ da = db, exc |-> second.exc]
        /\ orders' = [called |-> TRUE, a |-> a, da |-> da, b |-> b, db |-> db,
                      ab |-> second.layers, ba |-> other_second.layers,
                      exc |-> <<first.exc, second.exc, other_first.exc, other_second.exc>>]
        /\ UNCHANGED <<seeded, geomVars, sceneVars, gdfVars, worldVars>>

\* Two calls of add_layer on the table of a new UmiLayers, or on that table
\* after one add_layer of a root.
NextOrders ==
    \/ seeded["A"] = 0 /\ Construct("A")
    \/ \E segs \in RootSegs : last.op = "init" /\ AddLayer("A", segs, DD)
    \/ \E a_segs \in SegSeqs, b_segs \in SegSeqs, d \in Delimiters :
           AddBoth("A", a_segs, d, b_segs, d)

SpecOrders == Init /\ [][NextOrders]_vars

-----------------------------------------------------------------------------
(* Properties of the layer namespace *)

\* The prefixes s1, s1::s2, ..., p of a path p, shortest first.
PrefixEnds(p) == {k \in 1..Len(p) : p[k] # DD /\ (k = Len(p) \/ p[k + 1] = DD)}
Prefixes(p) ==
    [i \in 1..Cardinality(PrefixEnds(p)) |->
        SubSeq(p, 1, CHOOSE k \in PrefixEnds(p) :
                         Cardinality({j \in PrefixEnds(p) : j <= k}) = i)]

\* The number of segments of a path, and the path minus its last segment,
\* written with "::" whatever the delimiter d it was given with.
NumSegs(p, d) == 1 + Cardinality({k \in 1..Len(p) : p[k] = d})
ParentPath(p, d) ==
    LET k == CHOOSE m \in 1..Len(p) : p[m] = d /\ \A n \in (m + 1)..Len(p) : p[n] # d
    IN  [i \in 1..(k - 1) |-> IF p[i] = d THEN DD ELSE p[i]]

Exists(L, full_path) == \E i \in 1..Len(L) : FullPath(L, i) = full_path

CreatedParts(created) == [k \in 1..Len(created) |-> created[k].part]

\* C1: add_layer is idempotent.  A call add_layer(p) that repeats the call
\* made just before it on the same scene (default delimiter) returns the
\* same layer as that call, creates nothing and leaves the layer table of
\* the scene (names, parents, colors, order) as it was.
C1_AddLayerIdempotent ==
    [][ (last'.op = "add_layer" /\ last'.again /\ last'.delim = DD)
        => /\ last'.ret = last.ret
           /\ last'.exc = "none"
           /\ last'.created = <<>>
           /\ layers' = layers ]_vars

\* A second add_layer of a path of two or more segments whose layer was made
\* by add_layer (not by the constructor).
C1_Witness ==
    /\ last.op = "add_layer" /\ last.again /\ last.delim = DD
    /\ NumSegs(last.path, DD) >= 2
    /\ last.ret > Len(BaseLayers) + 1

\* C2: add_layer(p), p = s1::...::sn, appends one layer for each prefix of p
\* that did not exist before the call, in order and once each, and none for
\* a prefix that existed; the layers that existed are untouched; after the
\* call every prefix exists and the layer returned has full path p.
C2_CreatesMissingPrefixes ==
    [][ (last'.op = "add_layer" /\ last'.delim = DD)
        => LET s == last'.scene
               L == layers[s]
               L2 == layers'[s]
               res == Prefixes(last'.path)
               Missing(p) == ~Exists(L, p)
               made == last'.created
           IN  /\ CreatedParts(made) = SelectSeq(res, Missing)
               /\ Len(L2) = Len(L) + Len(made)
               /\ SubSeq(L2, 1, Len(L)) = L
               /\ \A k \in 1..Len(made) :
                      /\ made[k].Id = Len(L) + k
                      /\ FullPath(L2, made[k].Id) = made[k].part
               /\ \A i \in 1..Len(res) : Exists(L2, res[i])
               /\ last'.ret \in 1..Len(L2)
               /\ FullPath(L2, last'.ret) = last'.path ]_vars

\* A call that found its first prefix and created two layers below it.
C2_Witness ==
    /\ last.op = "add_layer" /\ last.delim = DD
    /\ Len(last.created) = 2
    /\ NumSegs(last.path, DD) = 3

\* C3: no two layers of a scene have the same full path.
C3_FullPathUnique ==
    \A s \in Scenes : \A i, j \in 1..Len(layers[s]) :
        FullPath(layers[s], i) = FullPath(layers[s], j) => i = j

\* C4: every layer that add_layer creates (called directly or by the
\* constructor) for a part of one segment has the nil parent, and every
\* layer it creates for a part of several segments has as parent a layer
\* whose full path is that part minus its last segment; in every table a
\* layer whose full path has one segment has the nil parent.
C4_ParentIsImmediateAncestor ==
    /\ \A s \in Scenes : \A i \in 1..Len(layers[s]) :
          NumSegs(FullPath(layers[s], i), DD) = 1 => layers[s][i].ParentLayerId = NilId
    /\ last.op \in {"add_layer", "init"} =>
          \A k \in 1..Len(last.created) :
              LET L == layers[last.scene]
                  lyr == L[last.created[k].Id]
                  part == last.created[k].part
              IN  IF NumSegs(part, last.delim) = 1
                  THEN lyr.ParentLayerId = NilId
                  ELSE /\ lyr.ParentLayerId \in 1..Len(L)
                       /\ FullPath(L, lyr.ParentLayerId) = ParentPath(part, last.delim)

\* A call that created a root layer and a child of it.
C4_Witness ==
    /\ last.op = "add_layer"
    /\ Len(last.created) = 2
    /\ NumSegs(last.created[1].part, last.delim) = 1
    /\ layers[last.scene][last.created[2].Id].ParentLayerId = last.created[1].Id

NameCount(L, name) == Cardinality({i \in 1..Len(L) : L[i].Name = name})

\* C5: find_layer_from_name(name) returns None when no layer has that leaf
\* name, the layer when exactly one has it, and raises ReferenceError when
\* two or more have it.
C5_FindByName ==
    last.op = "find_layer_from_name" =>
        LET L == layers[last.scene]
            n == NameCount(L, last.path)
        IN  /\ n = 0 => (last.ret = None /\ last.exc = "none")
            /\ n = 1 => /\ last.exc = "none"
                        /\ last.ret \in 1..Len(L)
                        /\ L[last.ret].Name = last.path
            /\ n >= 2 => last.exc = "ReferenceError"

\* A lookup of a leaf name that two layers share.
C5_Witness ==
    /\ last.op = "find_layer_from_name"
    /\ last.exc = "ReferenceError"
    /\ NameCount(layers[last.scene], last.path) >= 2

HasBaseLayers(L) ==
    \A b \in 1..Len(BaseLayers) :
        \E i \in 1..Len(L) :
            /\ FullPath(L, i) = BaseLayers[b].path
            /\ L[i].Color = BaseLayers[b].Color

\* C6: after UmiLayers(file3dm) the eight base layers exist with their
\* colors, and a construction on a File3dm that was seeded before adds no
\* layer and changes no color.
C6_SeedingIdempotent ==
    [][ last'.op = "init"
        => /\ last'.exc = "none"
           /\ HasBaseLayers(layers'[last'.scene])
           /\ seeded[last'.scene] > 0 => layers' = layers ]_vars

\* A second construction on a File3dm that holds more than the base layers.
C6_Witness ==
    /\ last.op = "init"
    /\ seeded[last.scene] >= 2
    /\ Len(layers[last.scene]) > Len(BaseLayers) + 1

\* C7: umiLayers[path] through scene A returns a layer of A's own File3dm,
\* the one A.find_layer_from_fullpath(path) returns.
C7_NamespacePerScene ==
    (last.op = "getitem" /\ last.exc = "none")
        => /\ last.owner = last.scene
           /\ last.ret = FindLayerFromFullpath(layers[last.scene], last.path)

-----------------------------------------------------------------------------
(* pyumi/geom_ops.py: extract_poly_coords, geom_to_brep, geom_to_face_with_hole *)

MaxHoles == 1       \* interior rings of one polygon
MaxParts == 2       \* parts of one multipolygon

\* Coordinates are numbered points; a ring is closed (first point = last).
Exteriors == {<<1, 2, 3, 1>>, <<1, 2, 3, 4, 1>>}
Holes == {<<5, 6, 7, 5>>, <<8, 9, 10, 8>>}

SeqsUpTo(S, n) == UNION {[1..k -> S] : k \in 0..n}

Polygons ==
    {[type |-> "Polygon", exterior |-> e, interiors |-> h, parts |-> <<>>] :
        e \in Exteriors, h \in SeqsUpTo(Holes, MaxHoles)}

MultiPolygons ==
    {[type |-> "MultiPolygon", exterior |-> <<>>, interiors |-> <<>>, parts |-> ps] :
        ps \in SeqsUpTo(Polygons, MaxParts) \ {<<>>}}

OtherGeoms ==
    {[type |-> "LineString", exterior |-> <<1, 2, 3>>, interiors |-> <<>>, parts |-> <<>>],
     [type |-> "Point", exterior |-> <<1>>, interiors |-> <<>>, parts |-> <<>>]}

Geoms == Polygons \cup MultiPolygons \cup OtherGeoms

FiniteElevations == {Fin(n) : n \in {-4, 0, 1, 2, 3, 10}}
FromArgs == FiniteElevations \cup {Omitted}
ToArgs == FiniteElevations \cup {Inf, NaN, Omitted}

\* def geom_to_brep(geom, from_elevation=0, to_elevation=0)
Default(x) == IF x.k = "omitted" THEN Fin(0) ELSE x

\* Python's x <= 1e-12 on a float: False for nan and for +inf.
LeEps(x) == x.k = "fin" /\ x.v <= EPS

\* A slip that puts the items in front of the list.
ExtendFront(list, items) == items \o list

\* list.extend(items): the items of the iterable are appended one by one.
Extend(list, items) == list \o items

\* extract_poly_coords: [ok, exterior, interiors]; ok is FALSE where the code
\* raises ValueError.  A ring is a sequence of points, the interiors are a
\* sequence of rings; for a MultiPolygon the exterior of each part is
\* extended into one list (its points), the interiors into one list of rings.
RECURSIVE ExtractPolyCoords(_)
RECURSIVE ExtractParts(_, _, _)
ExtractParts(parts, i, acc) ==
    IF i > Len(parts) THEN acc
    ELSE LET epc == ExtractPolyCoords(parts[i])
         IN  ExtractParts(parts, i + 1,
                 [ok |-> acc.ok /\ epc.ok,
                  exterior |-> Extend(acc.exterior, epc.exterior),
                  interiors |-> Extend(acc.interiors, epc.interiors)])

ExtractPolyCoords(g) ==
    IF g.type = "Polygon"
    THEN [ok |-> TRUE, exterior |-> g.exterior, interiors |-> g.interiors]
    ELSE IF g.type = "MultiPolygon"
    THEN ExtractParts(g.parts, 1, [ok |-> TRUE, exterior |-> <<>>, interiors |-> <<>>])
    ELSE [ok |-> FALSE, exterior |-> <<>>, interiors |-> <<>>]

Raise(e) == [NoResult EXCEPT !.kind = "raise", !.exc = e]
NaNSentinel == [NoResult EXCEPT !.kind = "nan"]

\* coords[1:]
Slice1(coords) == IF coords = <<>> THEN <<>> ELSE Tail(coords)

\* geom_to_face_with_hole: the trimmed plane bounded by PolylineCurve(coords[1:]).
GeomToFaceWithHole(g) ==
    LET epc == ExtractPolyCoords(g)
    IN  IF ~epc.ok THEN Raise("ValueError")
        ELSE [NoResult EXCEPT !.kind = "face", !.outer = Slice1(epc.exterior)]

\* shapely.geometry.Polygon(shell, holes): a ring given open is closed.
CloseRing(coords) ==
    IF coords = <<>> \/ coords[1] = coords[Len(coords)] THEN coords
    ELSE Append(coords, coords[1])

\* Line(Point3d(0, 0, 0), Point3d(0, 0, to_elevation)): IsValid needs two
\* distinct points with finite coordinates; Length is |to_elevation|.
PathIsValid(to) == to.k = "fin" /\ to.v # 0
PathLength(to) == IF to.v < 0 THEN 0 - to.v ELSE to.v

\* A slip that lets every sweep path through.
PathCheckFailsNever(to) == FALSE

\* line 84: not path.IsValid or path.Length <= 1e-12
PathCheckFails(to) == ~PathIsValid(to) \/ PathLength(to) <= EPS

\* A slip that takes the flat branch for negative elevations only.
IsFlatNegative(from, to) == to.k = "fin" /\ to.v < 0

\* line 59: to_elevation <= 1e-12
IsFlat(from, to) == LeEps(to)

\* A slip that forgets the holes.
InnerProfilesNone(interiors) == <<>>

\* lines 68-74: one PolylineCurve for each interior of the polygon
InnerProfiles(interiors) == [i \in 1..Len(interiors) |-> CloseRing(interiors[i])]

GeomToBrep(g, from_arg, to_arg) ==
    LET from == Default(from_arg)
        to == Default(to_arg)
    IN  IF IsFlat(from, to) THEN GeomToFaceWithHole(g)
        ELSE LET epc == ExtractPolyCoords(g)
                 outerProfile == CloseRing(epc.exterior)
                 innerProfiles == InnerProfiles(epc.interiors)
             IN  IF ~epc.ok THEN Raise("ValueError")
                 ELSE IF LeEps(to) THEN NaNSentinel
                 ELSE IF PathCheckFails(to) THEN NaNSentinel
                 ELSE [NoResult EXCEPT !.kind = "extrusion", !.outer = outerProfile,
                                       !.inner = innerProfiles, !.sweep = <<0, to.v>>]

InitGeom ==
    /\ LayerInit
    /\ geom \in Geoms
    /\ from_elevation \in FromArgs
    /\ to_elevation \in ToArgs
    /\ result = NoResult
    /\ extracted = NoEpc
    /\ RestInit

\* geom_to_brep(geom, from_elevation, to_elevation)
CallGeomToBrep ==
    /\ result = NoResult
    /\ result' = GeomToBrep(geom, from_elevation, to_elevation)
    /\ UNCHANGED <<geom, from_elevation, to_elevation, extracted, layerVars, restVars>>

\* extract_poly_coords(geom)
CallExtractPolyCoords ==
    LET r == ExtractPolyCoords(geom)
    IN  /\ ~extracted.called
        /\ extracted' = [called |-> TRUE, exterior |-> r.exterior, interiors |-> r.interiors,
                         exc |-> IF r.ok THEN "none" ELSE "ValueError"]
        /\ UNCHANGED <<geom, from_elevation, to_elevation, result, layerVars, restVars>>

NextGeom ==
    \/ CallGeomToBrep
    \/ CallExtractPolyCoords

SpecGeom == InitGeom /\ [][NextGeom]_vars

-----------------------------------------------------------------------------
(* resolve_3dm_geom(series, file3dm, on_file3dm_layer, fid)                 *)
(*                                                                         *)
(* The Objects table of a File3dm is a sequence of object records; the     *)
(* guid that AddPoint, AddBrep and AddCurve return is the position of the  *)
(* new object in the table (rhino3dm: a fresh Guid).  A series is a        *)
(* geometry and the attributes it has: has is the set of attribute names   *)
(* present, vals their values.                                             *)

MaxObjects == 2     \* objects of one File3dm

DefaultColor == <<205, 247, 201, 255>>
Red == <<255, 0, 0, 255>>

\* ObjectAttributes(): what rhino3dm gives a new object.
DefaultAttributes ==
    [LayerIndex |-> 0, Name |-> "", ObjectColor |-> Black, ColorSource |-> "ColorFromLayer",
     UserStrings |-> {}]

ResolveGeoms ==
    {[type |-> "Point", exterior |-> <<1>>, interiors |-> <<>>, parts |-> <<>>],
     [type |-> "Polygon", exterior |-> <<1, 2, 3, 1>>, interiors |-> <<<<5, 6, 7, 5>>>>,
      parts |-> <<>>],
     [type |-> "MultiPolygon", exterior |-> <<>>, interiors |-> <<>>,
      parts |-> <<[type |-> "Polygon", exterior |-> <<1, 2, 3, 1>>, interiors |-> <<>>,
                   parts |-> <<>>],
                  [type |-> "Polygon", exterior |-> <<1, 2, 3, 4, 1>>, interiors |-> <<>>,
                   parts |-> <<>>]>>],
     [type |-> "LineString", exterior |-> <<1, 2, 3>>, interiors |-> <<>>, parts |-> <<>>],
     [type |-> "LinearRing", exterior |-> <<1, 2, 3, 1>>, interiors |-> <<>>, parts |-> <<>>],
     [type |-> "MultiPoint", exterior |-> <<>>, interiors |-> <<>>,
      parts |-> <<[type |-> "Point", exterior |-> <<1>>, interiors |-> <<>>, parts |-> <<>>]>>]}

Features ==
    {[geometry |-> g, has |-> h, vals |-> [osmid |-> v, color |-> Red]] :
        g \in ResolveGeoms, h \in SUBSET {"osmid", "color"}, v \in {7}}

LayerIndexes == {1, 2}

\* isinstance(geom, classes): shapely's LinearRing is a subclass of LineString.
IsInstance(g, classes) ==
    \/ g.type \in classes
    \/ g.type = "LinearRing" /\ "LineString" \in classes

\* str(value) of an identifier.
Str(v) == CASE v = 7 -> "7" [] v = 8 -> "8" [] v = 9 -> "9" [] OTHER -> "?"

\* A slip that names every object after the attribute name.
NameOfFid(series, fid) == fid

\* str(getattr(series, fid, ""))
NameOf(series, fid) == IF fid \in series.has THEN Str(series.vals[fid]) ELSE ""

\* getattr(series, "color", (205, 247, 201, 255))
ColorOf(series) == IF "color" \in series.has THEN series.vals.color ELSE DefaultColor

\* File3dm.Objects.AddPoint / AddBrep / AddCurve
ObjectsAdd(O, kind, geometry, attr) ==
    Append(O, [Id |-> Len(O) + 1, kind |-> kind, geometry |-> geometry,
               LayerIndex |-> attr.LayerIndex, Name |-> attr.Name,
               ObjectColor |-> attr.ObjectColor, ColorSource |-> attr.ColorSource,
               UserStrings |-> attr.UserStrings])

\* _linestring_to_curve
LinestringToCurve(g) == g.exterior

Resolve3dmGeom(series, O, layer_index, fid) ==
    LET g == series.geometry
    IN  IF IsInstance(g, {"Point"})
        THEN LET O2 == ObjectsAdd(O, "point", g.exterior, DefaultAttributes)
                 guid == Len(O2)
             IN  [objects |-> [O2 EXCEPT ![guid].LayerIndex = layer_index,
                                         ![guid].Name = NameOf(series, fid)],
                  ret |-> guid, exc |-> "none", msg |-> <<>>]
        ELSE IF IsInstance(g, {"Polygon", "MultiPolygon"})
        THEN LET geom3dm == GeomToBrep(g, Fin(0), Fin(0))
                 geom3dm_attr == [DefaultAttributes EXCEPT
                                     !.LayerIndex = layer_index,
                                     !.Name = NameOf(series, fid),
                                     !.ObjectColor = ColorOf(series),
                                     !.ColorSource = "ColorFromObject"]
                 O2 == ObjectsAdd(O, "brep", geom3dm, geom3dm_attr)
             IN  IF geom3dm.kind = "raise"
                 THEN [objects |-> O, ret |-> None, exc |-> geom3dm.exc, msg |-> <<>>]
                 ELSE [objects |-> O2, ret |-> Len(O2), exc |-> "none", msg |-> <<>>]
        ELSE IF IsInstance(g, {"LineString"})
        THEN LET geom3dm_attr == [DefaultAttributes EXCEPT !.LayerIndex = layer_index,
                                                           !.Name = NameOf(series, fid)]
                 O2 == ObjectsAdd(O, "curve", LinestringToCurve(g), geom3dm_attr)
             IN  [objects |-> O2, ret |-> Len(O2), exc |-> "none", msg |-> <<>>]
        ELSE IF fid \notin series.has
        THEN [objects |-> O, ret |-> None, exc |-> "AttributeError", msg |-> <<>>]
        ELSE [objects |-> O, ret |-> None, exc |-> "NotImplementedError",
              msg |-> <<fid, Str(series.vals[fid]), g.type>>]

\* resolve_3dm_geom(series, file3dm, on_file3dm_layer, fid)
Resolve(series, layer_index, fid) ==
    LET r == Resolve3dmGeom(series, objects, layer_index, fid)
    IN  /\ Len(r.objects) <= MaxObjects
        /\ objects' = r.objects
        /\ resolved' = [called |-> TRUE, series |-> series, layer |-> layer_index,
                        fid |-> fid, ret |-> r.ret, exc |-> r.exc, msg |-> r.msg]
        /\ handles' = IF r.exc = "none" THEN Append(handles, r.ret) ELSE handles
        /\ UNCHANGED <<layerVars, geomVars, orders, worldVars, gdfVars>>

\* The callers (add_street_graph, add_pois) pass fid = "osmid".
NextResolve ==
    \E series \in Features, layer_index \in LayerIndexes :
        Resolve(series, layer_index, "osmid")

SpecResolve == Init /\ [][NextResolve]_vars

-----------------------------------------------------------------------------
(* UmiProject.add_default_shoebox_settings                                 *)
(*                                                                         *)
(* A frame is the set of its column names and the sequence of its rows; a  *)
(* row maps every column to a cell.  The cells of the settings are written *)
(* as Python shows them: "nan" is the float NaN and "None" is None.        *)

DEFAULT_SHOEBOX_SETTINGS ==
    [CoreDepth |-> "3",
     Envr |-> "1",
     Fdist |-> "1",
     FloorToFloorHeight |-> "3.0",
     PerimeterOffset |-> "3.0",
     RoomWidth |-> "3.0",
     WindowToWallRatioE |-> "0.4",
     WindowToWallRatioN |-> "0.4",
     WindowToWallRatioRoof |-> "0",
     WindowToWallRatioS |-> "0.4",
     WindowToWallRatioW |-> "0.4",
     TemplateName |-> "nan",
     EnergySimulatorName |-> "UMI Shoeboxer (default)",
     FloorToFloorStrict |-> "True"]

\* pandas.isna(cell): None and NaN are missing values.
IsNa(v) == v \in {"nan", "None"}

\* A slip that overwrites every cell of the columns of the dict.
FillAll(rows, value) ==
    [i \in 1..Len(rows) |->
        [c \in DOMAIN rows[i] |-> IF c \in DOMAIN value THEN value[c] ELSE rows[i][c]]]

\* DataFrame.fillna(value=dict, inplace=True): in the columns named by the
\* dict, a missing cell takes the value of the dict.
FillNa(rows, value) ==
    [i \in 1..Len(rows) |->
        [c \in DOMAIN rows[i] |->
            IF c \in DOMAIN value /\ IsNa(rows[i][c]) THEN value[c] ELSE rows[i][c]]]

AddDefaultShoeboxSettings(frame) ==
    LET bldg_attributes == DEFAULT_SHOEBOX_SETTINGS
        added == [i \in 1..Len(frame.rows) |->
                    [c \in (DOMAIN frame.rows[i]) \cup (DOMAIN bldg_attributes) |->
                        IF c \in DOMAIN bldg_attributes /\ c \notin frame.columns
                        THEN bldg_attributes[c]
                        ELSE frame.rows[i][c]]]
    IN  [columns |-> frame.columns \cup (DOMAIN bldg_attributes),
         rows |-> FillNa(added, bldg_attributes)]

MaxFeatures == 2    \* rows of the gdf_3dm given to add_default_shoebox_settings

\* The settings a gdf_3dm may bring along, and what their cells may hold:
\* a missing value (NaN or None) or a value of the user's.
UserColumns == {"CoreDepth", "TemplateName", "WindowToWallRatioN"}
UserCells == {"nan", "None", "9"}

\* The rows over the columns S and the column guid.
FrameRows(S) ==
    {[c \in S \cup {"guid"} |-> IF c = "guid" THEN "guid" ELSE f[c]] : f \in [S -> UserCells]}

Frames ==
    UNION {{[columns |-> S \cup {"guid"}, rows |-> rows] :
                rows \in SeqsUpTo(FrameRows(S), MaxFeatures)} :
           S \in SUBSET UserColumns}

InitSettings ==
    /\ LayerInit
    /\ geom = NoGeom
    /\ from_elevation = Omitted
    /\ to_elevation = Omitted
    /\ result = NoResult
    /\ extracted = NoEpc
    /\ SceneInit
    /\ gdf_arg = <<>>
    /\ gdf = <<>>
    /\ pc = "idle"
    /\ log = <<>>
    /\ built = <<>>
    /\ gdf_world_projected = <<>>
    /\ \E frame \in Frames : project = [NoProject EXCEPT !.state = "given", !.gdf_3dm = frame]
    /\ WorldIdle
    /\ orders = NoOrders

\* umi_project.add_default_shoebox_settings()
CallAddDefaultShoeboxSettings ==
    /\ project.state = "given"
    /\ project' = [project EXCEPT !.state = "defaults_added",
                                  !.gdf_3dm = AddDefaultShoeboxSettings(@)]
    /\ UNCHANGED <<gdf_arg, gdf, pc, log, built, gdf_world_projected,
                   layerVars, geomVars, orders, worldVars, sceneVars>>

NextSettings == CallAddDefaultShoeboxSettings

SpecSettings == InitSettings /\ [][NextSettings]_vars

-----------------------------------------------------------------------------
(* UmiProject.from_gdf(gdf, height_column_name, template_lib, ...)          *)
(*                                                                         *)
(* The call is made with the defaults of the keywords: the templates are   *)
(* in the column "TemplateName", fid is None and no file3dm is given, so   *)
(* every geometry is built and the project gets a File3dm of its own.  A   *)
(* row of the gdf is a record of its cells, together with its index label  *)
(* (a tuple once the gdf is exploded), the is_valid of its geometry and x, *)
(* the place of its geometry along the first axis (the second axis is     *)
(* treated by the code in the same way).                                   *)
(* The body is followed step by step; pc is the step reached.              *)

MaxRows == 2        \* rows of the gdf given to from_gdf

\* gdf.index: the labels 7, 8, ...
RowIndex(i) == 6 + i

GdfGeoms == {g \in ResolveGeoms : g.type \in {"Polygon", "MultiPolygon", "LineString"}}

\* The cells of the height column: NaN is a missing height.
Heights == {NaN, Fin(0), Fin(10), Inf}

TemplateNames == {"None", "T1"}

RowCells ==
    {[index |-> <<>>, valid |-> v, x |-> 0, geometry |-> g, height |-> h,
      TemplateName |-> t] :
        v \in BOOLEAN, g \in GdfGeoms, h \in Heights, t \in TemplateNames}

GdfArgs ==
    {[i \in 1..Len(f) |-> [f[i] EXCEPT !.index = <<RowIndex(i)>>]] :
        f \in SeqsUpTo(RowCells, MaxRows)}

\* What a row carries besides its cells.
NotColumns == {"index", "valid", "x"}

Columns(rows) == IF rows = <<>> THEN {} ELSE (DOMAIN rows[1]) \ NotColumns

IndexOf(rows) == [i \in 1..Len(rows) |-> rows[i].index]

SetColumn(row, c, v) == [k \in (DOMAIN row) \cup {c} |-> IF k = c THEN v ELSE row[k]]

DropColumn(row, c) == [k \in (DOMAIN row) \ {c} |-> row[k]]

\* A slip that takes every geometry for valid.
IsValidAlways(row) == TRUE

\* gdf.geometry.is_valid
IsValid(row) == row.valid
IsInvalid(row) == ~row.valid

\* A slip that takes every height for present.
HeightNotNaAlways(row) == TRUE

\* gdf[height_column_name].isna() and its negation
HeightIsNa(row) == row.height.k = "nan"
HeightNotNa(row) == row.height.k # "nan"

\* osmnx's project_gdf raises ValueError for a GeoDataFrame without rows.
ProjectGdfRaises(rows) == rows = <<>>

\* GeoDataFrame.to_crs on one coordinate: a change of coordinates between
\* two systems, which is no identity.
Transform(x, from_cs, to_cs) ==
    IF from_cs = to_cs THEN x
    ELSE IF to_cs = "cartesian" THEN 2 * x
    ELSE x \div 2

\* osmnx's project_gdf(gdf, to_crs=to_crs) on a gdf with rows: to the crs
\* given, or to the UTM zone of the gdf when none is given, which raises
\* ValueError for a gdf that is projected already.
ProjectGdf(rows, cs, to_crs) ==
    LET target == IF to_crs # "None" THEN to_crs ELSE "cartesian"
    IN  IF to_crs = "None" /\ cs = "cartesian"
        THEN [exc |-> "ValueError", cs |-> cs, rows |-> rows]
        ELSE [exc |-> "none", cs |-> target,
              rows |-> [i \in 1..Len(rows) |->
                           [rows[i] EXCEPT !.x = Transform(@, cs, target)]]]

RECURSIVE SumX(_)
SumX(rows) == IF rows = <<>> THEN 0 ELSE Head(rows).x + SumX(Tail(rows))

\* gdf.unary_union.centroid.x, the parts weighing the same
CentroidX(rows) == SumX(rows) \div Len(rows)

\* gdf.translate(xoff, yoff)
Translate(rows, xoff) == [i \in 1..Len(rows) |-> [rows[i] EXCEPT !.x = @ + xoff]]

\* A slip that lets every coordinate system through.
IsCartesianAlways(cs) == TRUE

\* _crs.coordinate_system.name != "cartesian", negated
IsCartesian(cs) == cs = "cartesian"

\* What the setter of to_crs is given: a CRS, a dict (of the keywords of
\* CRS.from_user_input, which has the one required parameter "value"), a
\* str, None or something else.
CrsValues ==
    {[kind |-> k, key |-> "", cs |-> c] : k \in {"CRS", "str"}, c \in {"cartesian", "ellipsoidal"}}
    \cup {[kind |-> "dict", key |-> k, cs |-> c] :
              k \in {"value", "init"}, c \in {"cartesian", "ellipsoidal"}}
    \cup {[kind |-> k, key |-> "", cs |-> "None"] : k \in {"None", "int"}}

\* The setter of to_crs: the _to_crs stored, or the exception raised.
ToCrsSetter(value) ==
    LET parsed ==
            IF value.kind \in {"CRS", "str"} THEN [exc |-> "none", cs |-> value.cs]
            ELSE IF value.kind = "dict"
            THEN IF value.key = "value" THEN [exc |-> "none", cs |-> value.cs]
                 ELSE [exc |-> "TypeError", cs |-> "None"]
            ELSE IF value.kind = "None" THEN [exc |-> "none", cs |-> "None"]
            ELSE [exc |-> "ValueError", cs |-> "None"]
    IN  IF parsed.exc # "none" THEN parsed
        ELSE IF parsed.cs # "None" /\ ~IsCartesian(parsed.cs)
        THEN [exc |-> "ValueError", cs |-> "None"]
        ELSE parsed

\* A slip that lets a frame without rows through.
SetGuidRaisesNever(rows) == FALSE

\* gdf["guid"] = gdf.progress_apply(_try_add, axis=1): on a frame without
\* rows apply gives back a frame, which cannot be stored in one column:
\* ValueError.
SetGuidRaises(rows) == rows = <<>>

Warning(about, dropped) ==
    [level |-> "warning", about |-> about, count |-> Len(dropped), index |-> IndexOf(dropped)]

Info(about, n) == [level |-> "info", about |-> about, count |-> n, index |-> <<>>]

\* GeoDataFrame.explode(): one row per single part, the index extended by
\* the number of the part.
ExplodeRow(row) ==
    IF row.geometry.type = "MultiPolygon"
    THEN [k \in 1..Len(row.geometry.parts) |->
            [row EXCEPT !.geometry = row.geometry.parts[k], !.index = row.index \o <<k - 1>>]]
    ELSE <<[row EXCEPT !.index = row.index \o <<0>>]>>

RECURSIVE Explode(_)
Explode(rows) == IF rows = <<>> THEN <<>> ELSE ExplodeRow(Head(rows)) \o Explode(Tail(rows))

\* try_make_geom(series, height_column_name), without file3dm
TryMakeGeom(row) == GeomToBrep(row.geometry, Fin(0), row.height)

\* gdf.progress_apply(try_make_geom, axis=1): the rows in order, up to the
\* first that raises.
RECURSIVE ApplyTryMakeGeom(_, _, _)
ApplyTryMakeGeom(rows, i, acc) ==
    IF i > Len(rows) THEN [rows |-> acc, seen |-> i - 1, exc |-> "none"]
    ELSE LET g == TryMakeGeom(rows[i])
         IN  IF g.kind = "raise" THEN [rows |-> acc, seen |-> i, exc |-> g.exc]
             ELSE ApplyTryMakeGeom(rows, i + 1, Append(acc, SetColumn(rows[i], "rhino_geom", g)))

\* A slip that keeps the rows whose Brep is missing.
NotErroredAlways(row) == TRUE

\* gdf["rhino_geom"].isna(), true of the NaN sentinel of geom_to_brep, and
\* its negation
Errored(row) == row.rhino_geom.kind = "nan"
NotErrored(row) == row.rhino_geom.kind # "nan"

\* gdf.progress_apply(_try_add, axis=1), without file3dm
RECURSIVE ApplyTryAdd(_, _, _, _)
ApplyTryAdd(O, rows, i, acc) ==
    IF i > Len(rows) THEN [objects |-> O, rows |-> acc]
    ELSE LET O2 == ObjectsAdd(O, "brep", rows[i].rhino_geom, DefaultAttributes)
         IN  ApplyTryAdd(O2, rows, i + 1, Append(acc, SetColumn(rows[i], "guid", Len(O2))))

\* UmiLayers(File3dm()) of the constructor: the layers of a new file.
NewProjectLayers == SeedLoop(<<>>, <<>>, "A", 1, <<>>)

\* umiLayers[full_path].Index: rhino3dm counts the layers of a table from 0.
LayerIndex(full_path) == NewProjectLayers.cls[full_path].Id - 1

\* A slip that leaves the objects without their names.
SetAttributesAndLayerUnnamed(O, row) ==
    [O EXCEPT ![row.guid].UserStrings = (DOMAIN row) \ NotColumns,
              ![row.guid].LayerIndex = LayerIndex(<<"umi", "::", "Buildings">>)]

\* set_attributes(series) and move_to_layer(series) on the object of the row
SetAttributesAndLayer(O, row) ==
    [O EXCEPT ![row.guid].UserStrings = (DOMAIN row) \ NotColumns,
              ![row.guid].LayerIndex =
                  IF row.TemplateName = "None"
                  THEN LayerIndex(<<"umi", "::", "Context", "::", "Shading">>)
                  ELSE LayerIndex(<<"umi", "::", "Buildings">>),
              ![row.guid].Name = Str(row.fid)]

RECURSIVE ApplyAttributes(_, _, _)
ApplyAttributes(O, rows, i) ==
    IF i > Len(rows) THEN O
    ELSE ApplyAttributes(SetAttributesAndLayer(O, rows[i]), rows, i + 1)

GdfInit ==
    /\ gdf_arg \in GdfArgs
    /\ gdf = gdf_arg
    /\ pc = "start"
    /\ log = <<>>
    /\ built = <<>>
    /\ gdf_world_projected = <<>>
    /\ project = NoProject

InitGdf ==
    /\ LayerInit
    /\ geom = NoGeom
    /\ from_elevation = Omitted
    /\ to_elevation = Omitted
    /\ result = NoResult
    /\ extracted = NoEpc
    /\ SceneInit
    /\ GdfInit
    /\ WorldIdle
    /\ orders = NoOrders

\* lines 454-464: the rows with an invalid geometry are logged and dropped.
FilterInvalidGeoms ==
    LET dropped == SelectSeq(gdf, IsInvalid)
    IN  /\ pc = "start"
        /\ log' = Append(log, IF dropped # <<>>
                              THEN Warning("Invalid geometries found", dropped)
                              ELSE Info("No invalid geometries reported", 0))
        /\ gdf' = SelectSeq(gdf, IsValid)
        /\ pc' = "valid_geoms"
        /\ UNCHANGED <<gdf_arg, built, gdf_world_projected, project,
                       layerVars, geomVars, orders, worldVars, sceneVars>>

\* lines 466-480: the rows with a missing height are logged and dropped.
FilterMissingHeight ==
    LET dropped == SelectSeq(gdf, HeightIsNa)
        kept == SelectSeq(gdf, HeightNotNa)
    IN  /\ pc = "valid_geoms"
        /\ log' = Append(log, IF dropped # <<>>
                              THEN Warning("Some rows have a missing height", dropped)
                              ELSE Info("reported features with a height", Len(kept)))
        /\ gdf' = kept
        /\ pc' = "valid_attrs"
        /\ UNCHANGED <<gdf_arg, built, gdf_world_projected, project,
                       layerVars, geomVars, orders, worldVars, sceneVars>>

\* lines 482-511: the serial fid, explode, project_gdf and the move to the
\* centroid of gdf_world_projected.
ExplodeAndProject ==
    LET with_fid == [i \in 1..Len(gdf) |-> SetColumn(gdf[i], "fid", gdf[i].index[1])]
        exploded == Explode(with_fid)
        p == ProjectGdf(exploded, crs.gdf, crs.to_crs)
        xoff == CentroidX(p.rows)
    IN  /\ pc = "valid_attrs"
        /\ IF ProjectGdfRaises(exploded)
           THEN /\ pc' = "raised"
                /\ project' = [NoProject EXCEPT !.state = "raised", !.exc = "ValueError"]
                /\ gdf' = exploded
                /\ UNCHANGED <<gdf_world_projected, crs>>
           ELSE /\ pc' = "projected"
                /\ gdf_world_projected' = p.rows
                /\ gdf' = Translate(p.rows, -xoff)
                /\ crs' = [crs EXCEPT !.gdf = p.cs]
                /\ UNCHANGED project
        /\ UNCHANGED <<gdf_arg, log, built, exported, layerVars, geomVars, orders, sceneVars>>

\* lines 513-528: gdf["rhino_geom"]; an exception of geom_to_brep leaves
\* from_gdf.
MakeGeoms ==
    LET r == ApplyTryMakeGeom(gdf, 1, <<>>)
    IN  /\ pc = "projected"
        /\ built' = SubSeq(gdf, 1, r.seen)
        /\ IF r.exc # "none"
           THEN /\ pc' = "raised"
                /\ project' = [NoProject EXCEPT !.state = "raised", !.exc = r.exc]
                /\ UNCHANGED gdf
           ELSE /\ pc' = "made"
                /\ gdf' = r.rows
                /\ UNCHANGED project
        /\ UNCHANGED <<gdf_arg, log, gdf_world_projected, layerVars, geomVars, orders, worldVars, sceneVars>>

\* lines 530-544: the rows whose rhino_geom is missing are logged and dropped.
FilterErroredBreps ==
    LET dropped == SelectSeq(gdf, Errored)
    IN  /\ pc = "made"
        /\ log' = Append(log, IF dropped # <<>>
                              THEN Warning("Brep creation errors", dropped)
                              ELSE Info("breps created", Len(gdf) * Cardinality(Columns(gdf))))
        /\ gdf' = SelectSeq(gdf, NotErrored)
        /\ pc' = "filtered"
        /\ UNCHANGED <<gdf_arg, built, gdf_world_projected, project,
                       layerVars, geomVars, orders, worldVars, sceneVars>>

\* lines 546-629: the project is constructed around gdf with a File3dm and
\* layers of its own, the Breps are added and their guids stored, the
\* default settings filled in, the attributes and layers of the objects
\* set, and the project returned, unless the guids cannot be stored.
\* (update_umi_sqlite3 writes to the sqlite tables only.)
AddBrepsAndReturn ==
    LET seeded_layers == NewProjectLayers
        added == ApplyTryAdd(<<>>, gdf, 1, <<>>)
        rows == [i \in 1..Len(added.rows) |-> DropColumn(added.rows[i], "rhino_geom")]
        gdf_3dm == AddDefaultShoeboxSettings([columns |-> Columns(rows), rows |-> rows])
        to_crs == ToCrsSetter([kind |-> "CRS", key |-> "", cs |-> crs.gdf])
    IN  /\ pc = "filtered"
        /\ IF to_crs.exc # "none"
           THEN /\ pc' = "raised"
                /\ project' = [NoProject EXCEPT !.state = "raised", !.exc = to_crs.exc]
                /\ UNCHANGED <<gdf, objects, layers, cls, seeded>>
           ELSE /\ layers' = [layers EXCEPT !["A"] = seeded_layers.layers]
                /\ cls' = [k \in (DOMAIN cls) \cup (DOMAIN seeded_layers.cls) |->
                              IF k \in DOMAIN seeded_layers.cls
                              THEN seeded_layers.cls[k] ELSE cls[k]]
                /\ seeded' = [seeded EXCEPT !["A"] = 1]
                /\ IF SetGuidRaises(gdf)
                   THEN /\ pc' = "raised"
                        /\ project' =
                               [NoProject EXCEPT !.state = "raised", !.exc = "ValueError"]
                        /\ UNCHANGED <<gdf, objects>>
                   ELSE /\ pc' = "returned"
                        /\ gdf' = gdf_3dm.rows
                        /\ objects' = ApplyAttributes(added.objects, gdf_3dm.rows, 1)
                        /\ project' = [state |-> "returned", exc |-> "none",
                                       gdf_3dm |-> gdf_3dm, to_crs |-> to_crs.cs,
                                       origin |-> CentroidX(gdf_world_projected),
                                       fid |-> "fid"]
        /\ UNCHANGED <<gdf_arg, log, built, gdf_world_projected, last, resolved, handles,
                       geomVars, orders, worldVars>>

\* gdf_3dm.geometry.unary_union.convex_hull.exterior.coords: the ring around
\* the geometries of the rows.
ConvexHullExterior(rows) ==
    [type |-> "LinearRing", hull_of |-> {rows[i].geometry : i \in 1..Len(rows)}]

\* add_site_boundary(), a method of the project from_gdf has returned; no
\* line of from_gdf calls it.
AddSiteBoundary ==
    LET boundary == ConvexHullExterior(project.gdf_3dm.rows)
        O2 == ObjectsAdd(objects, "curve", boundary, DefaultAttributes)
        guid == Len(O2)
    IN  /\ pc = "returned"
        /\ objects' = [O2 EXCEPT
               ![guid].LayerIndex =
                   LayerIndex(<<"umi", "::", "Context", "::", "Site boundary">>),
               ![guid].Name = "Convex hull boundary"]
        /\ pc' = "boundary_added"
        /\ UNCHANGED <<gdf_arg, gdf, log, built, gdf_world_projected, project,
                       resolved, handles, layerVars, geomVars, orders, worldVars>>

NextGdf ==
    \/ FilterInvalidGeoms
    \/ FilterMissingHeight
    \/ ExplodeAndProject
    \/ MakeGeoms
    \/ FilterErroredBreps
    \/ AddBrepsAndReturn
    \/ AddSiteBoundary

SpecGdf == InitGdf /\ [][NextGdf]_vars

-----------------------------------------------------------------------------
(* The project in the world: to_crs, save and open, export                 *)
(*                                                                         *)
(* from_gdf is called on polygons at different places, in a geographic or  *)
(* a projected crs, with or without a to_crs, and with or without a column *)
(* "id" of the caller's; the project has a weather file, which open needs. *)

\* Places of the features along the first axis.
XS == {0, 72}

\* The one shape of the features, a polygon with a hole.
Footprint == CHOOSE g \in GdfGeoms : g.type = "Polygon"

WorldCells ==
    {[index |-> <<>>, valid |-> TRUE, x |-> x, geometry |-> Footprint, height |-> h,
      TemplateName |-> "T1"] : x \in XS, h \in {Fin(10), Inf}}

WorldArgs ==
    {[i \in 1..Len(f) |->
         IF with_id
         THEN SetColumn([f[i] EXCEPT !.index = <<RowIndex(i)>>], "id", "a")
         ELSE [f[i] EXCEPT !.index = <<RowIndex(i)>>]] :
        f \in SeqsUpTo(WorldCells, MaxRows), with_id \in BOOLEAN}

InitWorld ==
    /\ LayerInit
    /\ geom = NoGeom
    /\ from_elevation = Omitted
    /\ to_elevation = Omitted
    /\ result = NoResult
    /\ extracted = NoEpc
    /\ SceneInit
    /\ gdf_arg \in WorldArgs
    /\ gdf = gdf_arg
    /\ pc = "start"
    /\ log = <<>>
    /\ built = <<>>
    /\ gdf_world_projected = <<>>
    /\ project = NoProject
    /\ crs \in {[given |-> g, to_crs |-> t, gdf |-> g] :
                    g \in {"cartesian", "ellipsoidal"},
                    t \in {"None", "cartesian", "ellipsoidal"}}
    /\ exported = NoExport
    /\ orders = NoOrders

\* A project there is: constructed, returned by from_gdf or by open.
IsProject(p) == p.state \in {"constructed", "returned", "opened"}

\* UmiProject(to_crs=value): the constructor by itself; the assignment to
\* to_crs comes before the File3dm and its layers are made.
NewProject(value) ==
    LET to_crs == ToCrsSetter(value)
        seeded_layers == NewProjectLayers
    IN  /\ pc = "start"
        /\ IF to_crs.exc # "none"
           THEN /\ pc' = "raised"
                /\ project' = [NoProject EXCEPT !.state = "raised", !.exc = to_crs.exc]
                /\ UNCHANGED <<layers, cls, seeded>>
           ELSE /\ pc' = "constructed"
                /\ project' = [NoProject EXCEPT !.state = "constructed",
                                                !.to_crs = to_crs.cs]
                /\ layers' = [layers EXCEPT !["A"] = seeded_layers.layers]
                /\ cls' = [k \in (DOMAIN cls) \cup (DOMAIN seeded_layers.cls) |->
                              IF k \in DOMAIN seeded_layers.cls
                              THEN seeded_layers.cls[k] ELSE cls[k]]
                /\ seeded' = [seeded EXCEPT !["A"] = 1]
        /\ UNCHANGED <<gdf_arg, gdf, log, built, gdf_world_projected, last, sceneVars,
                       geomVars, orders, worldVars>>

\* umi_project.to_crs = value
SetToCrs(value) ==
    LET to_crs == ToCrsSetter(value)
    IN  /\ IsProject(project)
        /\ project' = IF to_crs.exc # "none"
                      THEN [project EXCEPT !.exc = to_crs.exc]
                      ELSE [project EXCEPT !.exc = "none", !.to_crs = to_crs.cs]
        /\ UNCHANGED <<gdf_arg, gdf, pc, log, built, gdf_world_projected, layerVars,
                       sceneVars, geomVars, orders, worldVars>>

\* gdf_3dm.to_json() of save and GeoDataFrame.from_file() of open: the
\* columns come back as the properties of the features, a missing cell as
\* None, and the index is a new one, counted from 0.
ReadJson(rows) ==
    [i \in 1..Len(rows) |->
        [k \in DOMAIN rows[i] |->
            IF k = "index" THEN <<i - 1>>
            ELSE IF k \in DOMAIN DEFAULT_SHOEBOX_SETTINGS /\ rows[i][k] = "nan" THEN "None"
            ELSE rows[i][k]]]

\* project.save() followed by UmiProject.open() of the file written: the
\* File3dm comes back with its objects and layers, UmiLayers is made anew
\* on it, the offset is read from project-settings, gdf_world_projected is
\* gdf_3dm moved by the offset, to_crs is the UTM zone of the weather
\* file and fid is "id".
SaveAndOpen ==
    LET gdf_3dm == ReadJson(project.gdf_3dm.rows)
        xoff == project.origin
        r == SeedLoop(layers["A"], SetAttrAll(cls, layers["A"], "A", 1), "A", 1, <<>>)
        to_crs == ToCrsSetter([kind |-> "CRS", key |-> "", cs |-> "cartesian"])
    IN  /\ project.state = "returned"
        /\ layers' = [layers EXCEPT !["A"] = r.layers]
        /\ cls' = r.cls
        /\ seeded' = [seeded EXCEPT !["A"] = IF @ < MaxSeedings THEN @ + 1 ELSE @]
        /\ gdf_world_projected' = Translate(gdf_3dm, xoff)
        /\ crs' = [crs EXCEPT !.gdf = "cartesian"]
        /\ project' = [state |-> "opened", exc |-> "none",
                       gdf_3dm |-> [columns |-> Columns(gdf_3dm), rows |-> gdf_3dm],
                       to_crs |-> to_crs.cs, origin |-> xoff, fid |-> "id"]
        /\ UNCHANGED <<gdf_arg, gdf, pc, log, built, last, exported, sceneVars, geomVars, orders>>

\* dtype_map: the columns whose cells are written as str.
DtypeMap(rows, fid) == {fid} \cup ({"guid"} \cap Columns(rows))

\* project.export(filename): astype raises KeyError for a fid that is no
\* column; gdf_3dm is moved by the centroid of gdf_world_projected and
\* projected to the crs of gdf_world.
Export ==
    LET rows == project.gdf_3dm.rows
        dtype_map == DtypeMap(rows, project.fid)
        xdiff == CentroidX(gdf_world_projected)
        translated == Translate(rows, xdiff)
        p == ProjectGdf(translated, crs.gdf, "ellipsoidal")
    IN  /\ project.state \in {"returned", "opened"}
        /\ exported' =
               IF ~(dtype_map \subseteq Columns(rows))
               THEN [NoExport EXCEPT !.called = TRUE, !.exc = "KeyError"]
               ELSE [called |-> TRUE, exc |-> "none", dtypes |-> dtype_map,
                     translated |-> translated, rows |-> p.rows, crs |-> p.cs]
        /\ UNCHANGED <<crs, layerVars, sceneVars, geomVars, orders, gdfVars>>

NextWorld ==
    \/ NextGdf
    \/ \E value \in CrsValues : NewProject(value)
    \/ \E value \in CrsValues : SetToCrs(value)
    \/ SaveAndOpen
    \/ Export

SpecWorld == InitWorld /\ [][NextWorld]_vars

-----------------------------------------------------------------------------
(* Properties of the solid builder *)

Done == result.kind # "none"
IsPolygonal(g) == g.type \in {"Polygon", "MultiPolygon"}
HasHoles(g) == ExtractPolyCoords(g).interiors # <<>>

\* C8: for a polygon and to_elevation >= from_elevation, geom_to_brep builds
\* the flat face exactly when to_elevation - from_elevation <= 1e-12 and an
\* extrusion otherwise.
C8_FlatIffIntervalCollapses ==
    (Done /\ geom.type = "Polygon" /\ to_elevation.k = "fin" /\ from_elevation.k = "fin"
          /\ to_elevation.v >= from_elevation.v)
        => /\ result.kind = "face" <=> to_elevation.v - from_elevation.v <= EPS
           /\ result.kind = "extrusion" <=> to_elevation.v - from_elevation.v > EPS

\* C9: geom_to_brep(geom, 0, 0), or with the elevations left out, returns
\* for every polygon or multipolygon, with or without holes, the trimmed
\* plane of the flat-face path: no extrusion, no sentinel, no exception.
C9_ZeroHeightIsFace ==
    (Done /\ IsPolygonal(geom)
          /\ from_elevation \in {Fin(0), Omitted} /\ to_elevation \in {Fin(0), Omitted})
        => /\ result.kind = "face"
           /\ result.exc = "none"

\* A multipolygon with a hole, called with the elevations left out.
C9_Witness ==
    /\ Done /\ geom.type = "MultiPolygon" /\ HasHoles(geom)
    /\ from_elevation = Omitted /\ to_elevation = Omitted
    /\ result.kind = "face"

\* C10: in the extrusion case for a polygon or multipolygon, when the sweep
\* path is invalid (a non-finite end point) or not longer than 1e-12,
\* geom_to_brep returns the NaN sentinel and raises nothing.  (An outer
\* profile or a reference plane is never missing: both constructors return
\* an object.)
C10_FailureYieldsSentinel ==
    (Done /\ IsPolygonal(geom) /\ to_elevation.k \in {"inf", "nan"})
        => /\ result.kind = "nan"
           /\ result.exc = "none"

\* A polygon swept to an infinite elevation.
C10_Witness ==
    /\ Done /\ geom.type = "Polygon" /\ to_elevation = Inf
    /\ result.kind = "nan"

-----------------------------------------------------------------------------
(* Properties of the ring extractor *)

\* The holes of the parts of g, part by part: a polygon is its own only part.
PartsOf(g) == IF g.type = "Polygon" THEN <<g>> ELSE g.parts

RECURSIVE HolesBefore(_, _)
HolesBefore(g, p) ==
    IF p <= 1 THEN 0 ELSE HolesBefore(g, p - 1) + Len(PartsOf(g)[p - 1].interiors)

\* C11: for a MultiPolygon of n parts the exteriors returned by
\* extract_poly_coords are a list of exactly n rings, the i-th being the
\* exterior ring of the i-th part.
C11_OneExteriorPerPart ==
    (extracted.called /\ geom.type = "MultiPolygon")
        => /\ extracted.exc = "none"
           /\ Len(extracted.exterior) = Len(geom.parts)
           /\ \A i \in 1..Len(geom.parts) : extracted.exterior[i] = geom.parts[i].exterior

-----------------------------------------------------------------------------
(* Properties of the geometry resolver *)

Supported == {"Point", "Polygon", "MultiPolygon", "LineString"}

\* C13: for a series whose geometry is a Point, Polygon, MultiPolygon or
\* LineString, resolve_3dm_geom appends exactly one object to the table, on
\* the given layer and named str(series[fid]) ("" when the series has no
\* such attribute), returns the guid of that object and leaves every object
\* that was there as it was; the guids returned so far are pairwise distinct.
C13_ResolveAddsOneObject ==
    [][(resolved'.called /\ resolved' # resolved /\ resolved'.series.geometry.type \in Supported)
        => /\ resolved'.exc = "none"
           /\ Len(objects') = Len(objects) + 1
           /\ \A i \in 1..Len(objects) : objects'[i] = objects[i]
           /\ objects'[Len(objects')].Id = resolved'.ret
           /\ objects'[Len(objects')].LayerIndex = resolved'.layer
           /\ objects'[Len(objects')].Name =
                  (IF "osmid" \in resolved'.series.has
                   THEN Str(resolved'.series.vals.osmid) ELSE "")
           /\ \A i \in 1..Len(objects) : objects[i].Id # resolved'.ret
           /\ \A i, j \in 1..Len(handles') : i # j => handles'[i] # handles'[j]]_vars

\* Two objects in the table, the second a polygon's face named "7" on layer 2.
C13_Witness ==
    /\ Len(objects) = 2 /\ Len(handles) = 2
    /\ resolved.called /\ resolved.series.geometry.type = "Polygon"
    /\ resolved.ret = 2 /\ objects[2].kind = "brep"
    /\ objects[2].Name = "7" /\ objects[2].LayerIndex = 2

\* C14: for a series whose geometry type is none of Point, Polygon,
\* MultiPolygon and LineString, resolve_3dm_geom raises NotImplementedError
\* with a message that carries the identity and the type of the geometry,
\* and the Objects table is as it was.
C14_UnsupportedRaises ==
    [][(resolved'.called /\ resolved' # resolved /\ resolved'.series.geometry.type \notin Supported)
        => /\ resolved'.exc = "NotImplementedError"
           /\ resolved'.msg = <<"osmid", Str(resolved'.series.vals.osmid),
                                resolved'.series.geometry.type>>
           /\ objects' = objects]_vars

-----------------------------------------------------------------------------
(* Properties of from_gdf *)

Positions(rows, index) == {i \in 1..Len(rows) : rows[i].index = index}

\* The labels of the rows of the caller's gdf with an invalid geometry, and
\* of those with a missing height.
InvalidLabels == {gdf_arg[i].index[1] : i \in {j \in 1..Len(gdf_arg) : ~gdf_arg[j].valid}}
NoHeightLabels ==
    {gdf_arg[i].index[1] : i \in {j \in 1..Len(gdf_arg) : gdf_arg[j].height.k = "nan"}}

Labels(rows) == {rows[i].index[1] : i \in 1..Len(rows)}

\* The indexes in seq, in order, whose first label is in S.
RECURSIVE Restrict(_, _)
Restrict(seq, S) ==
    IF seq = <<>> THEN <<>>
    ELSE IF Head(seq)[1] \in S THEN <<Head(seq)>> \o Restrict(Tail(seq), S)
    ELSE Restrict(Tail(seq), S)

Returned == pc = "returned"

\* C15: the rows of the caller's gdf whose geometry is invalid are gone
\* from gdf after the first step; the warning of that step gives their
\* number and their index labels; none of them is handed to geom_to_brep
\* and none is in gdf_3dm or named by an object of the File3dm.
C15_InvalidRemovedFirst ==
    /\ pc # "start" => /\ Labels(gdf) \cap InvalidLabels = {}
                       /\ InvalidLabels # {} =>
                              /\ log[1].level = "warning"
                              /\ log[1].count = Cardinality(InvalidLabels)
                              /\ log[1].index = Restrict(IndexOf(gdf_arg), InvalidLabels)
    /\ Labels(built) \cap InvalidLabels = {}
    /\ Labels(project.gdf_3dm.rows) \cap InvalidLabels = {}
    /\ \A i \in 1..Len(objects) : \A l \in InvalidLabels : objects[i].Name # Str(l)

\* A project returned from a gdf of a valid row and an invalid one.
C15_Witness ==
    /\ Returned /\ Len(gdf_arg) = 2 /\ Cardinality(InvalidLabels) = 1
    /\ log[1].level = "warning" /\ Len(objects) >= 1

\* C16: the rows of the caller's gdf with a missing height, of valid
\* geometry or not, are gone from gdf after the second step: none is in the
\* gdf that is projected, in the copy the centroid is taken from, or among
\* the rows handed to geom_to_brep.
C16_NoHeightRemovedBeforeProjection ==
    /\ pc \notin {"start", "valid_geoms"} => Labels(gdf) \cap NoHeightLabels = {}
    /\ Labels(gdf_world_projected) \cap NoHeightLabels = {}
    /\ Labels(built) \cap NoHeightLabels = {}

\* A valid row without a height next to a row that is projected and built.
C16_Witness ==
    /\ pc = "made" /\ Len(gdf_arg) = 2 /\ Len(built) >= 1
    /\ \E i \in 1..2 : gdf_arg[i].valid /\ gdf_arg[i].height.k = "nan"
    /\ gdf_world_projected # <<>>

\* The rows handed to the building loop whose build gives the NaN sentinel.
FailedBuild(row) == GeomToBrep(row.geometry, Fin(0), row.height).kind = "nan"
BuildRaises(row) == GeomToBrep(row.geometry, Fin(0), row.height).kind = "raise"

\* C17: of the rows that reach the building loop, those whose build gives
\* the sentinel are in the warning of the third filter (count and indexes)
\* and have no row in gdf_3dm and no object in the File3dm; every other row
\* has its row in gdf_3dm and its Brep in the File3dm.  from_gdf does not
\* raise while a row is left, unless a build raised.
C17_FailedBuildsAreDiscarded ==
    LET rows == gdf_world_projected
        failed == {i \in 1..Len(rows) : FailedBuild(rows[i])}
    IN  /\ Returned =>
              /\ \A i \in 1..Len(rows) :
                    IF i \in failed
                    THEN Positions(project.gdf_3dm.rows, rows[i].index) = {}
                    ELSE \E k \in 1..Len(project.gdf_3dm.rows) :
                            /\ Positions(project.gdf_3dm.rows, rows[i].index) = {k}
                            /\ objects[project.gdf_3dm.rows[k].guid].geometry =
                                   GeomToBrep(rows[i].geometry, Fin(0), rows[i].height)
              /\ Len(objects) = Len(rows) - Cardinality(failed)
              /\ failed # {} =>
                    /\ log[3].level = "warning"
                    /\ log[3].count = Cardinality(failed)
                    /\ Len(log[3].index) = Cardinality(failed)
                    /\ {log[3].index[k] : k \in 1..Len(log[3].index)} =
                           {rows[i].index : i \in failed}
        /\ (pc = "raised" /\ rows # <<>>) =>
              \/ \E i \in 1..Len(rows) : BuildRaises(rows[i])
              \/ failed = 1..Len(rows)

\* A project returned with one Brep from a gdf of a row that builds and a
\* row whose build fails.
C17_Witness ==
    /\ Returned /\ Len(gdf_world_projected) = 2 /\ Len(objects) = 1
    /\ \E i \in 1..2 : FailedBuild(gdf_world_projected[i])
    /\ log[3].level = "warning" /\ log[3].count = 1

\* C18: a row of the building loop whose geometry the ring extractor does
\* not take does not make from_gdf raise: the row is dropped with a warning
\* and the other rows are built.
C18_UnsupportedIsDiscarded ==
    (\E i \in 1..Len(built) : built[i].geometry.type \notin {"Polygon", "MultiPolygon"})
        => /\ pc # "raised"
           /\ Returned =>
                 /\ log[3].level = "warning"
                 /\ \A i \in 1..Len(project.gdf_3dm.rows) :
                        project.gdf_3dm.rows[i].geometry.type = "Polygon"

\* Every row of the caller's gdf is dropped: invalid, without height, or
\* with a build that fails.
NoSurvivor ==
    \A i \in 1..Len(gdf_arg) :
        \/ ~gdf_arg[i].valid
        \/ gdf_arg[i].height.k = "nan"
        \/ FailedBuild(gdf_arg[i])

-----------------------------------------------------------------------------
(* Properties of add_default_shoebox_settings *)

\* C20: after add_default_shoebox_settings every feature has, for every
\* setting of DEFAULT_SHOEBOX_SETTINGS, the default where the column was
\* absent or its cell missing (NaN or None), and the cell it had otherwise;
\* the other columns and the number of features are as they were.
C20_DefaultsFillOnlyMissing ==
    [][(project.state = "given" /\ project'.state = "defaults_added")
        => LET old == project.gdf_3dm
               new == project'.gdf_3dm
           IN  /\ Len(new.rows) = Len(old.rows)
               /\ new.columns = old.columns \cup (DOMAIN DEFAULT_SHOEBOX_SETTINGS)
               /\ \A i \in 1..Len(old.rows) : \A c \in new.columns :
                      new.rows[i][c] =
                          IF c \notin DOMAIN DEFAULT_SHOEBOX_SETTINGS THEN old.rows[i][c]
                          ELSE IF c \notin old.columns THEN DEFAULT_SHOEBOX_SETTINGS[c]
                          ELSE IF old.rows[i][c] \in {"nan", "None"}
                          THEN DEFAULT_SHOEBOX_SETTINGS[c]
                          ELSE old.rows[i][c]]_vars

\* Two features with a CoreDepth column: the first keeps its own 9, the
\* second has the default 3; the absent column Envr has the default.
C20_Witness ==
    /\ project.state = "defaults_added" /\ Len(project.gdf_3dm.rows) = 2
    /\ project.gdf_3dm.rows[1].CoreDepth = "9"
    /\ project.gdf_3dm.rows[2].CoreDepth = "3"
    /\ project.gdf_3dm.rows[1].Envr = "1"
    /\ project.gdf_3dm.rows[2].TemplateName = "nan"

\* The row of the caller's gdf a row of gdf_3dm was made from.
ArgRow(row) == gdf_arg[CHOOSE i \in 1..Len(gdf_arg) : gdf_arg[i].index[1] = row.fid]

\* C21: in the project from_gdf returns, the object of every row whose
\* feature was given no template (TemplateName None) is on the layer
\* umi::Context::Shading, and the object of every row whose feature has a
\* template name is on the layer umi::Buildings.
C21_LayerByTemplate ==
    Returned =>
        \A i \in 1..Len(gdf) :
            objects[gdf[i].guid].LayerIndex =
                IF ArgRow(gdf[i]).TemplateName = "None"
                THEN LayerIndex(<<"umi", "::", "Context", "::", "Shading">>)
                ELSE LayerIndex(<<"umi", "::", "Buildings">>)

\* The curves of the File3dm that lie on the layer umi::Context::Site boundary.
SiteBoundaries ==
    {i \in 1..Len(objects) :
        /\ objects[i].kind = "curve"
        /\ objects[i].LayerIndex =
               LayerIndex(<<"umi", "::", "Context", "::", "Site boundary">>)}

\* C22: the File3dm of the project from_gdf returns holds exactly one curve
\* on the layer umi::Context::Site boundary, the exterior ring of the convex
\* hull of the geometries of gdf_3dm.
C22_OneSiteBoundary ==
    Returned =>
        /\ Cardinality(SiteBoundaries) = 1
        /\ \A i \in SiteBoundaries :
               objects[i].geometry = ConvexHullExterior(project.gdf_3dm.rows)

-----------------------------------------------------------------------------
(* Properties of the project in the world *)

\* The values that stand for a coordinate system that is not cartesian.
NotCartesianValues == {value \in CrsValues : value.cs = "ellipsoidal"}

Rejections == {"ValueError", "TypeError"}

\* C23: to_crs of a project is None or a cartesian system after every step,
\* and every assignment of a system that is not cartesian ends in an
\* exception: in the constructor and in from_gdf no project comes to be, in
\* the setter the project keeps the to_crs it had.
C23_ToCrsIsCartesian ==
    [][/\ project'.to_crs \in {"None", "cartesian"}
       /\ \A value \in NotCartesianValues :
              /\ NewProject(value) =>
                     project'.state = "raised" /\ project'.exc \in Rejections
              /\ SetToCrs(value) =>
                     project'.exc \in Rejections /\ project'.to_crs = project.to_crs
       /\ (AddBrepsAndReturn /\ crs.gdf = "ellipsoidal") =>
              project'.state = "raised" /\ project'.exc = "ValueError"]_vars

\* from_gdf was given a geographic to_crs and has raised at the constructor,
\* with rows in gdf.
C23_Witness ==
    /\ pc = "raised" /\ project.exc = "ValueError" /\ gdf # <<>>
    /\ crs.to_crs = "ellipsoidal" /\ crs.gdf = "ellipsoidal"
    /\ Len(gdf[1].index) = 2

\* The place of the feature of a row of gdf_3dm in the projected crs, before
\* it was moved to the origin.
ProjectedOriginal(row) == Transform(ArgRow(row).x, crs.given, "cartesian")

\* C24: an export that writes, of the project from_gdf returned or of that
\* project saved and opened, has moved every geometry of gdf_3dm back to
\* its original place in the projected crs, also when rows were dropped
\* after the move to the origin.
C24_ExportRestoresPlaces ==
    (exported.called /\ exported.exc = "none") =>
        /\ Len(exported.translated) = Len(project.gdf_3dm.rows)
        /\ \A i \in 1..Len(exported.translated) :
               exported.translated[i].x = ProjectedOriginal(exported.translated[i])

\* What holds of export: the project from_gdf returned is exported to its places.
ExportOfReturnedRestoresPlaces ==
    (exported.called /\ project.state = "returned") =>
        /\ exported.exc = "none"
        /\ \A i \in 1..Len(exported.translated) :
               exported.translated[i].x = ProjectedOriginal(exported.translated[i])

-----------------------------------------------------------------------------
(* Properties of the profiles and of the sweep path *)

\* C25: the extrusion geom_to_brep returns is swept along the path from
\* (0, 0, from_elevation) to (0, 0, to_elevation).
C25_SweepSpansInterval ==
    (Done /\ result.kind = "extrusion")
        => result.sweep = <<Default(from_elevation).v, Default(to_elevation).v>>

\* C26: the boundary handed to CreateTrimmedPlane for a polygon is its
\* exterior ring, vertex by vertex, and is closed as the ring is.
C26_FaceBoundaryIsClosedRing ==
    (Done /\ geom.type = "Polygon" /\ result.kind = "face")
        => /\ result.outer = geom.exterior
           /\ result.outer[1] = result.outer[Len(result.outer)]

\* The interior rings of g, part after part.
RECURSIVE AllHoles(_, _)
AllHoles(g, p) ==
    IF p > Len(PartsOf(g)) THEN <<>> ELSE PartsOf(g)[p].interiors \o AllHoles(g, p + 1)

\* The extrusion has the outer profile for its boundary and one inner
\* profile, the ring itself, for each interior ring of the geometry.
HolesAttached ==
    /\ result.kind = "extrusion"
    /\ result.exc = "none"
    /\ result.outer = CloseRing(ExtractPolyCoords(geom).exterior)
    /\ Len(result.inner) = Len(AllHoles(geom, 1))
    /\ \A i \in 1..Len(result.inner) : result.inner[i] = AllHoles(geom, 1)[i]

\* C27 as stated: for every polygon or multipolygon and every to_elevation
\* above 1e-12, +inf among them, geom_to_brep returns the extrusion with all
\* the holes.
C27_HolesAttachedAnyHeight ==
    (Done /\ IsPolygonal(geom)
          /\ (to_elevation.k = "inf" \/ (to_elevation.k = "fin" /\ to_elevation.v > EPS)))
        => HolesAttached

\* C27: for every polygon or multipolygon and every finite to_elevation
\* above 1e-12, geom_to_brep returns the extrusion whose boundary is the outer
\* profile and whose inner profiles are the k interior rings of the
\* geometry, one for each.
C27_HolesAttached ==
    (Done /\ IsPolygonal(geom) /\ to_elevation.k = "fin" /\ to_elevation.v > EPS)
        => HolesAttached

\* A multipolygon of two parts with a hole each, extruded to 10.
C27_Witness ==
    /\ Done /\ geom.type = "MultiPolygon" /\ Len(geom.parts) = 2
    /\ Len(AllHoles(geom, 1)) = 2 /\ to_elevation = Fin(10)
    /\ result.kind = "extrusion" /\ Len(result.inner) = 2

-----------------------------------------------------------------------------
(* Properties of the rows and the Breps of a new project *)

Breps == {i \in 1..Len(objects) : objects[i].kind = "brep"}

\* C28: in the project from_gdf returns, the guid of every row of gdf_3dm is
\* the Id of exactly one Brep of the File3dm, named str(fid) of the row; two
\* rows never have the same guid, and every Brep of the File3dm is the Brep
\* of a row.
C28_RowsAndBrepsCorrespond ==
    Returned =>
        LET rows == project.gdf_3dm.rows
        IN  /\ \A i \in 1..Len(rows) :
                   /\ Cardinality({b \in Breps : objects[b].Id = rows[i].guid}) = 1
                   /\ \A b \in Breps :
                          objects[b].Id = rows[i].guid => objects[b].Name = Str(rows[i].fid)
            /\ \A i, j \in 1..Len(rows) : i # j => rows[i].guid # rows[j].guid
            /\ \A b \in Breps : \E i \in 1..Len(rows) : rows[i].guid = objects[b].Id
            /\ Cardinality(Breps) = Len(rows)

\* A project of the two parts of one multipolygon: two rows with one fid and
\* two Breps with one name.
C28_Witness ==
    /\ Returned /\ Len(project.gdf_3dm.rows) = 2 /\ Cardinality(Breps) = 2
    /\ project.gdf_3dm.rows[1].fid = project.gdf_3dm.rows[2].fid
    /\ objects[1].Name = "7" /\ objects[2].Name = "7"

-----------------------------------------------------------------------------
(* Properties of add_layer under any delimiter and any order *)

\* C30: for every delimiter d, a call add_layer(p, d), p of two or more
\* segments, that repeats the call made just before it returns the layer
\* that call returned and creates no layer.
C30_IdempotentAnyDelimiter ==
    [][ (last'.op = "add_layer" /\ last'.again /\ NumSegs(last'.path, last'.delim) >= 2)
        => /\ last'.ret = last.ret
           /\ last'.created = <<>>
           /\ layers' = layers ]_vars

\* The full paths of a table, and the pairs (full path of a layer, full path
\* of its parent), the parent of a root being the empty path.
PathSet(L) == {FullPath(L, i) : i \in 1..Len(L)}
ParentRelation(L) ==
    {<<FullPath(L, i),
       IF L[i].ParentLayerId = NilId THEN <<>> ELSE FullPath(L, L[i].ParentLayerId)>> :
        i \in 1..Len(L)}

\* C29: add_layer(a) followed by add_layer(b) leaves a table with the same
\* full paths and the same parent relation between full paths as
\* add_layer(b) followed by add_layer(a), whatever the two paths, their
\* delimiters and the table they are added to.
C29_OrderInsensitive ==
    orders.called =>
        /\ PathSet(orders.ab) = PathSet(orders.ba)
        /\ ParentRelation(orders.ab) = ParentRelation(orders.ba)

\* Two paths that share their first part and are new below it, added to a
\* table that holds a layer added before; each order creates three layers.
C29_Witness ==
    /\ orders.called /\ orders.a # orders.b
    /\ NumSegs(orders.a, orders.da) = 3 /\ NumSegs(orders.b, orders.db) = 2
    /\ orders.a[1] = orders.b[1]
    /\ Len(orders.ab) = Len(BaseLayers) + 5
    /\ Len(orders.ba) = Len(orders.ab)
    /\ orders.ab # orders.ba

====
